---- MODULE Spec2Model ----
(***************************************************************************)
(* Lite Solutions web backend: Discord OAuth2 login for the client panel,  *)
(* the admin gate and the admin ticket bridge, in the four server.js       *)
(* iterations kept in the repository:                                      *)
(*   "oauthOnly"    src/unnamed/part_000  26-229  OAuth only, no PKCE      *)
(*   "twoPass"      src/server.js          1-335  no PKCE, two passwords   *)
(*   "pkceTwoPass"  src/unnamed/part_000 241-671  PKCE, two passwords      *)
(*   "pkceSingle"   src/server.js        345-734  PKCE, one password input *)
(* One browser session is modelled.  express-session loads the session     *)
(* into req.session when a request arrives and writes it back to the store *)
(* when the response ends, if the handler changed it.  Values of JavaScript*)
(* are tagged records ([t |-> "undefined"], [t |-> "null"], ...) so that   *)
(* any two of them can be compared.  Date.now() stamps (createdAt, at) are *)
(* never read by any handler and are left out of the records.              *)
(***************************************************************************)
EXTENDS Integers, Sequences, FiniteSets, TLC

\* ---- bounds -------------------------------------------------------------
NumStates == 2        \* distinct values crypto.randomBytes(16) is let to produce
NumVerifiers == 2     \* distinct values crypto.randomBytes(32) is let to produce
MaxInFlight == 2      \* request slots of the session
MaxChannels == 3      \* channels in an answer to GET /guilds/:id/channels
MaxMessages == 3      \* messages in an answer to GET /channels/:id/messages
MaxTickets == 3       \* interactions the bot is let to handle

\* ---- values -------------------------------------------------------------
\* Tokens (state, code, verifier) are positive numbers; 0 is the falsy value
\* of a query parameter or session property (undefined or "").
NoTok == 0
Undef == "undefined"                 \* a body field that is absent or not a string
UndefV == [t |-> "undefined"]        \* an absent session property
NullV == [t |-> "null"]
TrueV == [t |-> "true"]

Truthy(v) == v.t \notin {"undefined", "null"}

Variants == {"oauthOnly", "twoPass", "pkceTwoPass", "pkceSingle"}
IsPkce(v) == v \in {"pkceTwoPass", "pkceSingle"}
HasAdmin(v) == v # "oauthOnly"

StateTokens == 1 .. NumStates
Verifiers == 1 .. NumVerifiers
Codes == {1, 2}                      \* authorization codes in the redirect
QueryStates == StateTokens \cup {NoTok}
QueryCodes == Codes \cup {NoTok}

ADMIN_PASS_1 == "p1"
ADMIN_PASS_2 == "p2"
PassInputs == {"p1", "p2", "bad", Undef}

Slots == 1 .. MaxInFlight

\* ---- profiles returned by GET /users/@me --------------------------------
\* "" stands for a falsy string field (null, undefined or ""), <<>> for a
\* falsy avatar; discriminator -1 for one that Number() maps to NaN.
Profiles ==
  { [id |-> "u1", username |-> "alice", global_name |-> "", discriminator |-> 7,
     avatar |-> <<>>],
    [id |-> "u2", username |-> "bob", global_name |-> "Bobby", discriminator |-> 0,
     avatar |-> <<"a", "_", "f">>],
    [id |-> "u2", username |-> "bob", global_name |-> "Bobby", discriminator |-> -1,
     avatar |-> <<"f", "3">>],
    [id |-> "u3", username |-> "carol", global_name |-> "", discriminator |-> -1,
     avatar |-> <<>>] }

StartsWithA_(s) == Len(s) >= 2 /\ s[1] = "a" /\ s[2] = "_"

\* discordAvatarUrl of the non-PKCE variants
discordAvatarUrlPlain(user) ==
  IF user.id = "" THEN [kind |-> "null"]
  ELSE IF user.avatar = <<>> THEN [kind |-> "embed", idx |-> 0]
  ELSE [kind |-> "avatars", id |-> user.id, avatar |-> user.avatar,
        ext |-> IF StartsWithA_(user.avatar) THEN "gif" ELSE "png"]

\* discordAvatarUrl of the PKCE variants: Number(discriminator) % 5 || 0
discordAvatarUrlPng(user) ==
  IF user.avatar = <<>>
  THEN [kind |-> "embed",
        idx |-> IF user.discriminator < 0 THEN 0 ELSE user.discriminator % 5]
  ELSE [kind |-> "avatars", id |-> user.id, avatar |-> user.avatar, ext |-> "png"]

discordAvatarUrlPkce(user) ==
  IF user.avatar = <<>>
  THEN [kind |-> "embed",
        idx |-> IF user.discriminator < 0 THEN 0 ELSE user.discriminator % 5]
  ELSE [kind |-> "avatars", id |-> user.id, avatar |-> user.avatar,
        ext |-> IF StartsWithA_(user.avatar) THEN "gif" ELSE "png"]

\* the identity the callback stores in req.session.user
Identity(v, user) ==
  IF IsPkce(v)
  THEN [t |-> "obj", id |-> user.id, username |-> user.username,
        global_name |-> user.global_name, discriminator |-> user.discriminator,
        avatar |-> user.avatar, avatar_url |-> discordAvatarUrlPkce(user)]
  ELSE [t |-> "obj", discordId |-> user.id,
        username |-> IF user.global_name # "" THEN user.global_name ELSE user.username,
        avatarUrl |-> discordAvatarUrlPlain(user)]

\* ---- sessions -------------------------------------------------------------
\* oauthState is the pending handshake of the non-PKCE variants, oauth the one
\* of the PKCE variants.  A session nobody wrote is EmptySession
\* (saveUninitialized: false keeps it out of the store).
EmptySession ==
  [oauthState |-> NoTok, oauth |-> UndefV, user |-> UndefV, admin |-> UndefV]

HasPending(v, s) == IF IsPkce(v) THEN Truthy(s.oauth) ELSE s.oauthState # NoTok
PendingState(v, s) == IF IsPkce(v) THEN s.oauth.state ELSE s.oauthState

\* ---- requests -------------------------------------------------------------
\* a request in flight: where its handler waits (pc), its query, the session
\* as loaded (sess0) and as the handler has changed it so far (sess).  With
\* pc = "token" the request to the token endpoint is out, carrying code and
\* codeVerifier.
IdleReq ==
  [pc |-> "idle", op |-> "none", code |-> NoTok, state |-> NoTok,
   codeVerifier |-> NoTok, sess0 |-> EmptySession, sess |-> EmptySession]

\* the parsed body of an answer of the Discord REST API: JSON null (an empty
\* body) or an array; NoPayload where there was no answer
NoPayload == [t |-> "none"]
NullPayload == [t |-> "null"]
EmptyList == [t |-> "list", items |-> <<>>]

\* a response: `state` is the state parameter it answers (callback) or hands
\* out in the redirect (Start); `data` the array in its JSON body (tickets,
\* messages) and `up` the answer of Discord it was built from
NoResp ==
  [op |-> "none", status |-> 0, body |-> "none", state |-> NoTok,
   data |-> <<>>, up |-> NoPayload]

\* process.env: whether DISCORD_BOT_TOKEN, DISCORD_TICKETS_CATEGORY_ID and
\* DISCORD_GUILD_ID are set
Envs == [botToken : BOOLEAN, category : BOOLEAN, guild : BOOLEAN]
FullEnv == [botToken |-> TRUE, category |-> TRUE, guild |-> TRUE]

\* a request of the bot to the Discord REST API: GET /guilds/:id/channels
\* ("channels"), GET /channels/:id/messages?limit= ("messages"),
\* POST /channels/:id/messages ("post", len the length of the content posted)
NoCall == [kind |-> "none", channelId |-> "", limit |-> 0, len |-> 0]

\* a handshake generated by Start
NoStart == [state |-> NoTok, codeVerifier |-> NoTok]

\* ---- the ticket bot (bot.js) --------------------------------------------------
\* the users who press the button; their names are lower-case letters and
\* their ids shorter than four characters, so that safeName is
\* ticket-<username>-<id>
NoUser == [id |-> "", username |-> ""]
BotUsers == {[id |-> "u1", username |-> "alice"], [id |-> "u2", username |-> "bob"]}

\* an interaction handler that is not running
IdleHandler == [pc |-> "idle", user |-> NoUser, inGuild |-> FALSE, channel |-> ""]

\* the bot's reply to an interaction (interaction.editReply)
NoReply == [kind |-> "none", user |-> "", channel |-> ""]

\* the bot before any interaction, in a guild its cache holds no channel of
\* (the servers' specifications leave it there)
NoBot ==
  [channels |-> <<>>, handlers |-> [h \in 1 .. MaxInFlight |-> IdleHandler],
   created |-> 0, lastReply |-> NoReply]

\* the application directory (__dirname): whether panel.html and admin.html
\* are in it
Pages == {"panel.html", "admin.html"}
Dirs == [Pages -> BOOLEAN]
AllFiles == [p \in Pages |-> TRUE]

VARIABLES
  variant,       \* which server.js iteration runs
  store,         \* the session as the session store holds it
  reqs,          \* the requests in flight, one per slot
  lastResp,      \* the response that ended last
  lastStart,     \* history: the handshake the latest Start generated
  prevState,     \* history: the state the Start before it generated
  sent,          \* history: token exchanges sent since the latest Start (2: two or more)
  won,           \* history: a callback has logged the user in since the latest Start
  env,           \* the optional configuration
  lastCall,      \* history: the last request sent to the Discord REST API as the bot
  files,         \* the application directory
  bot            \* the ticket bot (bot.js): the guild as its cache holds it, the
                 \* interaction handlers in flight, its last reply

vars ==
  <<variant, store, reqs, lastResp, lastStart, prevState, sent, won, env, lastCall, files,
    bot>>
hist == <<lastStart, prevState, sent, won, env, lastCall, files, bot>>
server ==
  <<variant, store, reqs, lastResp, lastStart, prevState, sent, won, env, lastCall, files>>
oauthHist == <<lastStart, prevState, sent, won>>

Init ==
  /\ variant \in Variants
  /\ store = EmptySession
  /\ reqs = [r \in Slots |-> IdleReq]
  /\ lastResp = NoResp
  /\ lastStart = NoStart
  /\ prevState = NoTok
  /\ sent = 0
  /\ won = FALSE
  /\ env = FullEnv
  /\ lastCall = NoCall
  /\ files = AllFiles
  /\ bot = NoBot

\* a handler that answers in the step the request arrives: it loads the
\* session s0 and leaves it as s1; express-session writes s1 back when the
\* handler changed it (resave: false)
Respond(op, status, body, state, s0, s1) ==
  /\ store' = IF s1 # s0 THEN s1 ELSE store
  /\ lastResp' = [op |-> op, status |-> status, body |-> body, state |-> state,
                  data |-> <<>>, up |-> NoPayload]

\* the end of the response of the request in slot r, its session left as s1
FinishWith(r, status, body, data, up, s1) ==
  /\ store' = IF s1 # reqs[r].sess0 THEN s1 ELSE store
  /\ lastResp' = [op |-> reqs[r].op, status |-> status, body |-> body,
                  state |-> reqs[r].state, data |-> data, up |-> up]
  /\ reqs' = [reqs EXCEPT ![r] = IdleReq]

Finish(r, status, body, s1) == FinishWith(r, status, body, <<>>, NoPayload, s1)

\* ---- GET /auth/discord ---------------------------------------------------
\* buildDiscordAuthUrl / the non-PKCE route: the new handshake replaces
\* whatever the session held.
StartSessionKeep(v, s, state, verifier) ==
  IF HasPending(v, s) THEN s
  ELSE IF IsPkce(v)
  THEN [s EXCEPT !.oauth = [t |-> "obj", state |-> state, codeVerifier |-> verifier]]
  ELSE [s EXCEPT !.oauthState = state]

StartSession(v, s, state, verifier) ==
  IF IsPkce(v)
  THEN [s EXCEPT !.oauth = [t |-> "obj", state |-> state, codeVerifier |-> verifier]]
  ELSE [s EXCEPT !.oauthState = state]

Start(r, state, verifier) ==
  /\ reqs[r].pc = "idle"
  /\ ~IsPkce(variant) => verifier = NoTok
  /\ IsPkce(variant) => verifier # NoTok
  /\ Respond("start", 302, "authorize", state, store,
             StartSession(variant, store, state, verifier))
  /\ lastStart' = [state |-> state, codeVerifier |-> verifier]
  /\ prevState' = lastStart.state
  /\ sent' = 0
  /\ won' = FALSE
  /\ UNCHANGED <<variant, reqs, env, lastCall, files, bot>>

\* ---- GET /auth/discord/callback ------------------------------------------
\* the checks before the token exchange: "" when the request passes them
CallbackRejectNoCompare(v, s, code, state) ==
  IF IsPkce(v)
  THEN IF code = NoTok \/ state = NoTok THEN "Missing code/state."
       ELSE IF ~Truthy(s.oauth) THEN "No oauth session."
       ELSE ""
  ELSE IF code = NoTok THEN "Missing code"
       ELSE IF state = NoTok THEN "Invalid state"
       ELSE ""

CallbackReject(v, s, code, state) ==
  IF IsPkce(v)
  THEN IF code = NoTok \/ state = NoTok THEN "Missing code/state."
       ELSE IF ~Truthy(s.oauth) THEN "No oauth session."
       ELSE IF state # s.oauth.state THEN "Invalid state."
       ELSE ""
  ELSE IF code = NoTok THEN "Missing code"
       ELSE IF state = NoTok \/ state # s.oauthState THEN "Invalid state"
       ELSE ""

\* req.session once the checks are passed and the exchange is about to be sent
CallbackTake(v, s) == IF IsPkce(v) THEN [s EXCEPT !.oauth = NullV] ELSE s

\* the verifier sent along with the code
CallbackVerifierWrongField(v, s) == IF IsPkce(v) THEN s.oauth.state ELSE NoTok

CallbackVerifier(v, s) == IF IsPkce(v) THEN s.oauth.codeVerifier ELSE NoTok

CallbackArriveClearing(r, code, state) ==
  /\ reqs[r].pc = "idle"
  /\ LET why == CallbackReject(variant, store, code, state) IN
     IF why # ""
     THEN /\ Respond("callback", 400, why, state, store,
                     IF IsPkce(variant) THEN [store EXCEPT !.oauth = NullV]
                     ELSE [store EXCEPT !.oauthState = NoTok])
          /\ UNCHANGED <<variant, reqs, hist>>
     ELSE /\ reqs' = [reqs EXCEPT ![r] =
                        [pc |-> "token", op |-> "callback", code |-> code, state |-> state,
                         codeVerifier |-> CallbackVerifier(variant, store),
                         sess0 |-> store, sess |-> CallbackTake(variant, store)]]
          /\ sent' = IF sent = 0 THEN 1 ELSE 2
          /\ UNCHANGED <<variant, store, lastResp, lastStart, prevState, won, env, lastCall, files, bot>>

CallbackArrive(r, code, state) ==
  /\ reqs[r].pc = "idle"
  /\ LET why == CallbackReject(variant, store, code, state) IN
     IF why # ""
     THEN /\ Respond("callback", 400, why, state, store, store)
          /\ UNCHANGED <<variant, reqs, hist>>
     ELSE /\ reqs' = [reqs EXCEPT ![r] =
                        [pc |-> "token", op |-> "callback", code |-> code, state |-> state,
                         codeVerifier |-> CallbackVerifier(variant, store),
                         sess0 |-> store, sess |-> CallbackTake(variant, store)]]
          /\ sent' = IF sent = 0 THEN 1 ELSE 2
          /\ UNCHANGED <<variant, store, lastResp, lastStart, prevState, won, env, lastCall, files, bot>>

\* the token endpoint answers: ok, a non-success status, or fetch throws
TokenResponse(r, outcome) ==
  /\ reqs[r].pc = "token"
  /\ IF outcome = "ok"
     THEN /\ reqs' = [reqs EXCEPT ![r].pc = "profile"]
          /\ UNCHANGED <<store, lastResp>>
     ELSE Finish(r, 500,
                 IF IsPkce(variant) THEN "OAuth error. Check server logs."
                 ELSE IF outcome = "fail" THEN "Discord token exchange failed"
                 ELSE "Login error",
                 reqs[r].sess)
  /\ UNCHANGED <<variant, hist>>

\* req.session after a profile was fetched
CallbackLoginKeep(v, s, user) == [s EXCEPT !.user = Identity(v, user)]

CallbackLogin(v, s, user) ==
  IF IsPkce(v)
  THEN [s EXCEPT !.user = Identity(v, user)]
  ELSE [s EXCEPT !.user = Identity(v, user), !.oauthState = NoTok]

\* the identity endpoint answers
ProfileResponseUnchecked(r, outcome, user) ==
  /\ reqs[r].pc = "profile"
  /\ Finish(r, 302, "/panel.html", CallbackLogin(variant, reqs[r].sess, user))
  /\ won' = TRUE
  /\ UNCHANGED <<variant, lastStart, prevState, sent, env, lastCall, files, bot>>

ProfileResponse(r, outcome, user) ==
  /\ reqs[r].pc = "profile"
  /\ IF outcome = "ok"
     THEN Finish(r, 302, "/panel.html", CallbackLogin(variant, reqs[r].sess, user))
     ELSE Finish(r, 500,
                 IF IsPkce(variant) THEN "OAuth error. Check server logs."
                 ELSE IF outcome = "fail" THEN "Discord profile fetch failed"
                 ELSE "Login error",
                 reqs[r].sess)
  /\ won' = (won \/ outcome = "ok")
  /\ UNCHANGED <<variant, lastStart, prevState, sent, env, lastCall, files, bot>>

\* ---- POST /auth/logout ------------------------------------------------------
\* the two-password non-PKCE variant deletes req.session.user; the others
\* destroy the whole session
LogoutSessionBoth(v, s) ==
  IF v = "twoPass" THEN [s EXCEPT !.user = UndefV, !.admin = UndefV] ELSE EmptySession

LogoutSession(v, s) == IF v = "twoPass" THEN [s EXCEPT !.user = UndefV] ELSE EmptySession

Logout(r) ==
  /\ reqs[r].pc = "idle"
  /\ Respond("logout", 200, "ok:true", NoTok, store, LogoutSession(variant, store))
  /\ UNCHANGED <<variant, reqs, hist>>

\* ---- GET /api/me --------------------------------------------------------------
ApiMe(r) ==
  /\ reqs[r].pc = "idle"
  /\ IF Truthy(store.user)
     THEN Respond("me", 200, "user", NoTok, store, store)
     ELSE Respond("me", 401, "error:unauthorized", NoTok, store, store)
  /\ UNCHANGED <<variant, reqs, hist>>

\* ---- POST /admin/auth/login -----------------------------------------------
IsString(x) == x # Undef

\* the status the login answers with; pkceSingle reads only `password` (pass1)
AdminLoginStatusEither(v, pass1, pass2) ==
  IF v = "twoPass"
  THEN IF IsString(pass1) /\ IsString(pass2) /\ (pass1 = ADMIN_PASS_1 \/ pass2 = ADMIN_PASS_2)
       THEN 200 ELSE 401
  ELSE IF v = "pkceTwoPass"
  THEN IF ~IsString(pass1) \/ ~IsString(pass2) THEN 400
       ELSE IF pass1 = ADMIN_PASS_1 \/ pass2 = ADMIN_PASS_2 THEN 200 ELSE 401
  ELSE IF ~IsString(pass1) THEN 400
       ELSE 200

AdminLoginStatus(v, pass1, pass2) ==
  IF v = "twoPass"
  THEN IF IsString(pass1) /\ IsString(pass2) /\ pass1 = ADMIN_PASS_1 /\ pass2 = ADMIN_PASS_2
       THEN 200 ELSE 401
  ELSE IF v = "pkceTwoPass"
  THEN IF ~IsString(pass1) \/ ~IsString(pass2) THEN 400
       ELSE IF pass1 = ADMIN_PASS_1 /\ pass2 = ADMIN_PASS_2 THEN 200 ELSE 401
  ELSE IF ~IsString(pass1) THEN 400
       ELSE IF pass1 = ADMIN_PASS_1 \/ pass1 = ADMIN_PASS_2 THEN 200 ELSE 401

\* req.session.admin = true, or { ok: true, at: Date.now() }
AdminFlag(v) == IF v = "twoPass" THEN TrueV ELSE [t |-> "obj", ok |-> TRUE]

AdminLoginSessionForget(v, s, status) == s

AdminLoginSession(v, s, status) ==
  IF status = 200 THEN [s EXCEPT !.admin = AdminFlag(v)] ELSE s

AdminLogin(r, pass1, pass2) ==
  /\ reqs[r].pc = "idle"
  /\ HasAdmin(variant)
  /\ variant = "pkceSingle" => pass2 = Undef
  /\ LET status == AdminLoginStatus(variant, pass1, pass2) IN
     Respond("adminLogin", status,
             IF status = 200 THEN "ok:true"
             ELSE IF status = 400 THEN "error:Bad request"
             ELSE IF variant = "twoPass" THEN "error:invalid_admin_passwords"
             ELSE "error:Unauthorized",
             NoTok, store, AdminLoginSession(variant, store, status))
  /\ UNCHANGED <<variant, reqs, hist>>

\* ---- POST /admin/auth/logout ----------------------------------------------
AdminLogoutSessionDestroy(v, s) == EmptySession

AdminLogoutSession(v, s) ==
  IF v = "twoPass" THEN [s EXCEPT !.admin = UndefV] ELSE [s EXCEPT !.admin = NullV]

AdminLogout(r) ==
  /\ reqs[r].pc = "idle"
  /\ HasAdmin(variant)
  /\ Respond("adminLogout", 200, "ok:true", NoTok, store, AdminLogoutSession(variant, store))
  /\ UNCHANGED <<variant, reqs, hist>>

\* ---- the admin guard -------------------------------------------------------
\* requireAdmin / requireAdminAuth: next() is called
requireAdminDefined(s) == s.admin.t # "undefined"

requireAdmin(s) == Truthy(s.admin)

\* ---- GET /api/admin/me ------------------------------------------------------
AdminMe(r) ==
  /\ reqs[r].pc = "idle"
  /\ HasAdmin(variant)
  /\ IF requireAdmin(store)
     THEN Respond("adminMe", 200, IF variant = "twoPass" THEN "admin:true" ELSE "ok:true",
                  NoTok, store, store)
     ELSE Respond("adminMe", 401,
                  IF variant = "twoPass" THEN "error:admin_unauthorized" ELSE "ok:false",
                  NoTok, store, store)
  /\ UNCHANGED <<variant, reqs, hist>>

\* ---- the pages -----------------------------------------------------------------
Pass == [status |-> 0, body |-> ""]
Answer(status, body) == [status |-> status, body |-> body]

\* express.static(__dirname) on GET /<page>: it sends the file when the
\* directory holds it and calls next() otherwise; it does not look at the
\* session
StaticServe(f, page) == IF f[page] THEN Answer(200, page) ELSE Pass

\* res.sendFile(path.join(__dirname, page)): a missing file ends in next(err)
\* with status 404
SendFile(f, page) == IF f[page] THEN Answer(200, page) ELSE Answer(404, "error:ENOENT")

\* the handler registered with app.get("/panel.html")
PanelRoute(f, s) ==
  IF ~Truthy(s.user) THEN Answer(302, "/auth/discord") ELSE SendFile(f, "panel.html")

\* the handler registered with app.get("/admin.html"); the OAuth-only
\* iteration registers none and ends in its 404 fallback
AdminPageRoute(v, f, s) ==
  IF v = "oauthOnly" THEN Answer(404, "Not Found")
  ELSE IF v = "twoPass"
  THEN IF ~Truthy(s.admin) THEN Answer(302, "/admin/login.html")
       ELSE SendFile(f, "admin.html")
  ELSE SendFile(f, "admin.html")

\* GET /panel.html through the handlers in registration order: in every
\* iteration express.static is registered before the route
PanelAnswer(v, f, s) ==
  IF StaticServe(f, "panel.html") # Pass THEN StaticServe(f, "panel.html")
  ELSE PanelRoute(f, s)

\* GET /admin.html: the two-password non-PKCE iteration registers the route
\* before express.static, the others after it
AdminPageAnswer(v, f, s) ==
  IF v # "twoPass" /\ StaticServe(f, "admin.html") # Pass THEN StaticServe(f, "admin.html")
  ELSE AdminPageRoute(v, f, s)

GetPanel(r) ==
  /\ reqs[r].pc = "idle"
  /\ LET a == PanelAnswer(variant, files, store) IN
     Respond("panel", a.status, a.body, NoTok, store, store)
  /\ UNCHANGED <<variant, reqs, hist>>

GetAdminPage(r) ==
  /\ reqs[r].pc = "idle"
  /\ LET a == AdminPageAnswer(variant, files, store) IN
     Respond("adminPage", a.status, a.body, NoTok, store, store)
  /\ UNCHANGED <<variant, reqs, hist>>

\* ---- the ticket bridge -------------------------------------------------------
MaxContent == 1900
MessagesLimit == 50

ChannelIds == {"ch1", " "}           \* :channelId; " " is trimmed to ""
GuildIds == {"g1", ""}               \* ?guildId= of the PKCE variants

\* req.body.content: absent, a number, or a string of `lead` blanks, `len`
\* units from its first to its last non-blank one, and `trail` blanks
Contents ==
  {[t |-> "undefined"], [t |-> "num"]} \cup
  [t : {"str"}, lead : {0, 1}, len : {0, 2, MaxContent, MaxContent + 1}, trail : {0, 1}]

\* the length of String(content || "").trim()
TrimLenCoerced(c) == IF c.t = "undefined" THEN 0 ELSE IF c.t = "num" THEN 1 ELSE c.len

\* content.trim().slice(0, 1900).length
TrimSliceLen(c) == IF c.len > MaxContent THEN MaxContent ELSE c.len

\* !content || typeof content !== "string" || !content.trim()
MissingContentNoTrim(c) == c.t # "str" \/ c.lead + c.len + c.trail = 0

MissingContent(c) == c.t # "str" \/ c.lead + c.len + c.trail = 0 \/ c.len = 0

\* GET /api/admin/tickets: the answer given before any upstream call, or Pass
ListReject(v, e, s, guildId) ==
  IF v = "twoPass"
  THEN IF ~requireAdmin(s) THEN Answer(401, "error:admin_unauthorized")
       ELSE IF ~e.category THEN Answer(200, "tickets:[]")
       ELSE IF ~e.guild THEN Answer(400, "error:Missing DISCORD_GUILD_ID for tickets listing")
       ELSE IF ~e.botToken THEN Answer(500, "error:tickets_fetch_failed")
       ELSE Pass
  ELSE IF ~requireAdmin(s) THEN Answer(401, "error:Unauthorized")
       ELSE IF ~e.botToken THEN Answer(400, "error:DISCORD_BOT_TOKEN not set")
       ELSE IF guildId = "" THEN Answer(400, "error:Missing guildId query")
       ELSE IF ~e.category THEN Answer(400, "error:Missing DISCORD_TICKETS_CATEGORY_ID")
       ELSE Pass

\* GET /api/admin/tickets/:channelId
ReadReject(v, e, s, channelId) ==
  IF v = "twoPass"
  THEN IF ~requireAdmin(s) THEN Answer(401, "error:admin_unauthorized")
       ELSE IF channelId = " " THEN Answer(400, "error:missing_channel_id")
       ELSE IF ~e.botToken THEN Answer(500, "error:ticket_messages_failed")
       ELSE Pass
  ELSE IF ~requireAdmin(s) THEN Answer(401, "error:Unauthorized")
       ELSE IF ~e.botToken THEN Answer(400, "error:DISCORD_BOT_TOKEN not set")
       ELSE Pass

\* POST /api/admin/tickets/:channelId/send
SendReject(v, e, s, channelId, content) ==
  IF v = "twoPass"
  THEN IF ~requireAdmin(s) THEN Answer(401, "error:admin_unauthorized")
       ELSE IF channelId = " " THEN Answer(400, "error:missing_channel_id")
       ELSE IF TrimLenCoerced(content) = 0 THEN Answer(400, "error:missing_content")
       ELSE IF ~e.botToken THEN Answer(500, "error:ticket_send_failed")
       ELSE Pass
  ELSE IF ~requireAdmin(s) THEN Answer(401, "error:Unauthorized")
       ELSE IF ~e.botToken THEN Answer(400, "error:DISCORD_BOT_TOKEN not set")
       ELSE IF MissingContent(content) THEN Answer(400, "error:Missing content")
       ELSE Pass

\* the length of the content posted to Discord
SendLen(v, content) ==
  IF v = "twoPass" THEN TrimLenCoerced(content) ELSE TrimSliceLen(content)

\* a ticket route: it answers at once, or sends `call` to Discord and waits
TicketArrive(r, op, verdict, call) ==
  /\ reqs[r].pc = "idle"
  /\ HasAdmin(variant)
  /\ IF verdict # Pass
     THEN /\ Respond(op, verdict.status, verdict.body, NoTok, store, store)
          /\ UNCHANGED <<reqs, lastCall>>
     ELSE /\ reqs' = [reqs EXCEPT ![r] =
                        [IdleReq EXCEPT !.pc = "upstream", !.op = op,
                                        !.sess0 = store, !.sess = store]]
          /\ lastCall' = call
          /\ UNCHANGED <<store, lastResp>>
  /\ UNCHANGED <<variant, oauthHist, env, files, bot>>

TicketsList(r, guildId) ==
  TicketArrive(r, "list", ListReject(variant, env, store, guildId),
               [kind |-> "channels", channelId |-> "", limit |-> 0, len |-> 0])

TicketRead(r, channelId) ==
  TicketArrive(r, "read", ReadReject(variant, env, store, channelId),
               [kind |-> "messages", channelId |-> channelId,
                limit |-> MessagesLimit, len |-> 0])

TicketSend(r, channelId, content) ==
  TicketArrive(r, "send", SendReject(variant, env, store, channelId, content),
               [kind |-> "post", channelId |-> channelId, limit |-> 0,
                len |-> SendLen(variant, content)])

\* what a ticket route answers once Discord has
BotAnswer(v, op, outcome) ==
  IF outcome = "ok"
  THEN Answer(200, IF op = "list" THEN "tickets" ELSE IF op = "read" THEN "messages"
                   ELSE "ok:true")
  ELSE IF v = "twoPass"
  THEN Answer(500, IF op = "list" THEN "error:tickets_fetch_failed"
                   ELSE IF op = "read" THEN "error:ticket_messages_failed"
                   ELSE "error:ticket_send_failed")
  ELSE Answer(500, IF op = "list" THEN "error:Tickets list failed"
                   ELSE IF op = "read" THEN "error:Ticket read failed"
                   ELSE "error:Ticket send failed")

\* DISCORD_TICKETS_CATEGORY_ID, when it is set
TICKETS_CATEGORY_ID == "cat1"

\* channels of the guild: text channels (type 0) and a voice channel (type 2)
\* inside and outside the ticket category, and the category itself (type 4,
\* parent_id null, written "")
Channels ==
  { [id |-> "c1", name |-> "ticket-1", parent_id |-> "cat1", type |-> 0],
    [id |-> "c2", name |-> "ticket-2", parent_id |-> "cat1", type |-> 0],
    [id |-> "c3", name |-> "call", parent_id |-> "cat1", type |-> 2],
    [id |-> "c4", name |-> "general", parent_id |-> "cat2", type |-> 0],
    [id |-> "cat1", name |-> "Tickets", parent_id |-> "", type |-> 4] }

\* messages of a channel; "" is a falsy name.  content and timestamp are
\* copied into the entry and are left out.
Messages ==
  { [id |-> "m1", author |-> [t |-> "obj", bot |-> TRUE, username |-> "helper",
                             global_name |-> ""]],
    [id |-> "m2", author |-> [t |-> "obj", bot |-> FALSE, username |-> "ann",
                             global_name |-> "Ann"]],
    [id |-> "m3", author |-> [t |-> "obj", bot |-> FALSE, username |-> "",
                             global_name |-> ""]],
    [id |-> "m4", author |-> UndefV] }

\* the arrays of at most n distinct elements of S
ArraysOf(S, n) ==
  UNION {{s \in [1 .. k -> S] : \A i, j \in 1 .. k : s[i] = s[j] => i = j} : k \in 0 .. n}

ChannelPayloads ==
  {NullPayload} \cup {[t |-> "list", items |-> s] : s \in ArraysOf(Channels, MaxChannels)}
MessagePayloads ==
  {NullPayload} \cup {[t |-> "list", items |-> s] : s \in ArraysOf(Messages, MaxMessages)}

\* (x || [])
OrEmpty(p) == IF p.t = "list" THEN p.items ELSE <<>>

\* .filter(c => c.parent_id === categoryId && c.type === 0)
\* .map(c => ({ id: c.id, name: c.name }))
listTicketsAnyType(p, categoryId) ==
  LET IsTicket(c) == c.parent_id = categoryId
      kept == SelectSeq(OrEmpty(p), IsTicket)
  IN [i \in 1 .. Len(kept) |-> [id |-> kept[i].id, name |-> kept[i].name]]

listTicketsInCategory(p, categoryId) ==
  LET IsTicket(c) == c.parent_id = categoryId /\ c.type = 0
      kept == SelectSeq(OrEmpty(p), IsTicket)
  IN [i \in 1 .. Len(kept) |-> [id |-> kept[i].id, name |-> kept[i].name]]

\* Array.prototype.reverse
Reverse(s) == [i \in 1 .. Len(s) |-> s[Len(s) + 1 - i]]

\* (msgs || []).reverse()
getLastMessagesUnreversed(p) == OrEmpty(p)

getLastMessages(p) == Reverse(OrEmpty(p))

\* m.author?.global_name || m.author?.username || "User" in the non-PKCE
\* iteration, m.author?.username || "Unknown" in the PKCE ones
AuthorName(v, m) ==
  IF m.author.t # "obj" THEN (IF v = "twoPass" THEN "User" ELSE "Unknown")
  ELSE IF v = "twoPass" /\ m.author.global_name # "" THEN m.author.global_name
  ELSE IF m.author.username # "" THEN m.author.username
  ELSE IF v = "twoPass" THEN "User" ELSE "Unknown"

\* m.author?.bot ? "bot" : "user"
AuthorType(m) == IF m.author.t = "obj" /\ m.author.bot THEN "bot" ELSE "user"

\* the messages array of the Read response
ReadMessages(v, p) ==
  LET msgs == getLastMessages(p)
  IN [i \in 1 .. Len(msgs) |->
        [id |-> msgs[i].id, author |-> AuthorName(v, msgs[i]),
         authorType |-> AuthorType(msgs[i])]]

\* the array in the body of a ticket route's answer
BotData(v, op, outcome, payload) ==
  IF outcome # "ok" THEN <<>>
  ELSE IF op = "list" THEN listTicketsInCategory(payload, TICKETS_CATEGORY_ID)
  ELSE IF op = "read" THEN ReadMessages(v, payload)
  ELSE <<>>

\* Discord answers the bot: ok with a parsed body, a non-success status, or
\* fetch throws
BotResponse(r, outcome, payload) ==
  /\ reqs[r].pc = "upstream"
  /\ IF outcome # "ok" THEN payload = NoPayload
     ELSE IF reqs[r].op = "list" THEN payload \in ChannelPayloads
     ELSE IF reqs[r].op = "read" THEN payload \in MessagePayloads
     ELSE payload = NullPayload
  /\ LET a == BotAnswer(variant, reqs[r].op, outcome) IN
     FinishWith(r, a.status, a.body, BotData(variant, reqs[r].op, outcome, payload),
                payload, reqs[r].sess)
  /\ UNCHANGED <<variant, hist>>

Outcomes == {"ok", "fail", "throw"}

Step(r) ==
  \/ \E s \in StateTokens, v \in Verifiers \cup {NoTok} : Start(r, s, v)
  \/ \E c \in QueryCodes, s \in QueryStates : CallbackArrive(r, c, s)
  \/ \E o \in Outcomes : TokenResponse(r, o)
  \/ \E o \in Outcomes, u \in Profiles : ProfileResponse(r, o, u)
  \/ Logout(r)
  \/ ApiMe(r)
  \/ \E p1 \in PassInputs, p2 \in PassInputs : AdminLogin(r, p1, p2)
  \/ AdminLogout(r)
  \/ AdminMe(r)

\* requests handled one at a time
Next == Step(1)

Spec == Init /\ [][Next]_vars

\* ---- requests of one session that overlap ------------------------------------
\* the OAuth routes with every slot in use: a request arrives while others of
\* the same browser session wait for Discord.  Each loads the session from the
\* store as it arrives and express-session writes it back when its response
\* ends.  One Discord account answers the identity request.
StepConc(r) ==
  \/ \E s \in StateTokens, v \in Verifiers \cup {NoTok} : Start(r, s, v)
  \/ \E c \in QueryCodes, s \in QueryStates : CallbackArrive(r, c, s)
  \/ \E o \in Outcomes : TokenResponse(r, o)
  \/ \E o \in Outcomes, u \in {p \in Profiles : p.id = "u1"} : ProfileResponse(r, o, u)
  \/ Logout(r)

NextConc == \E r \in Slots : StepConc(r)

SpecConc == Init /\ [][NextConc]_vars

\* ---- the ticket bot: client.on(Events.InteractionCreate) ----------------------
EveryoneId == "everyone"             \* guild.roles.everyone.id
BotId == "bot"                       \* guild.members.me.id
GuildText == 0                       \* ChannelType.GuildText

\* the ids Discord gives the channels it creates, in order
TicketChannelIds == <<"t1", "t2", "t3", "t4", "t5">>

\* the ticket category as guild.channels.cache holds it (a category channel
\* has type 4); a topic is a sequence, <<>> for none
CategoryChannel ==
  [id |-> TICKETS_CATEGORY_ID, type |-> 4, parentId |-> "", topic |-> <<>>,
   name |-> <<"Tickets">>, overwrites |-> {}]

\* `ticket:${user.id}`
TicketTopic(user) == <<"ticket:", user.id>>

\* the channel guild.channels.create is asked for, under the id Discord gives
NewChannelOpen(id, user) ==
  [id |-> id, type |-> GuildText, parentId |-> TICKETS_CATEGORY_ID,
   topic |-> TicketTopic(user),
   name |-> <<"ticket-", user.username, "-", user.id>>,
   overwrites |->
     { [id |-> user.id,
        allow |-> {"ViewChannel", "SendMessages", "ReadMessageHistory", "AttachFiles",
                   "EmbedLinks"},
        deny |-> {}],
       [id |-> BotId,
        allow |-> {"ViewChannel", "SendMessages", "ReadMessageHistory", "ManageChannels",
                   "ManageMessages"},
        deny |-> {}] }]

NewChannel(id, user) ==
  [id |-> id, type |-> GuildText, parentId |-> TICKETS_CATEGORY_ID,
   topic |-> TicketTopic(user),
   name |-> <<"ticket-", user.username, "-", user.id>>,
   overwrites |->
     { [id |-> EveryoneId, allow |-> {}, deny |-> {"ViewChannel"}],
       [id |-> user.id,
        allow |-> {"ViewChannel", "SendMessages", "ReadMessageHistory", "AttachFiles",
                   "EmbedLinks"},
        deny |-> {}],
       [id |-> BotId,
        allow |-> {"ViewChannel", "SendMessages", "ReadMessageHistory", "ManageChannels",
                   "ManageMessages"},
        deny |-> {}] }]

\* guild.channels.cache.get(TICKETS_CATEGORY_ID)
HasCategory(chs) == \E i \in 1 .. Len(chs) : chs[i].id = TICKETS_CATEGORY_ID

\* the test of the existing-ticket lookup
IsTicketOf(ch, user) ==
  /\ ch.type = GuildText
  /\ ch.parentId = TICKETS_CATEGORY_ID
  /\ ch.topic = TicketTopic(user)

\* guild.channels.cache.find(...): the id of the first match, "" for none
ExistingTicket(chs, user) ==
  LET hits == {i \in 1 .. Len(chs) : IsTicketOf(chs[i], user)}
  IN IF hits = {} THEN ""
     ELSE chs[CHOOSE i \in hits : \A j \in hits : i <= j].id

\* handlers that have not returned
Running == {h \in 1 .. MaxInFlight : bot.handlers[h].pc # "idle"}

\* a button interaction arrives: isButton(), the customId test, and
\* deferReply is sent; any other interaction is dropped
InteractionArrive(h, user, customId, inGuild) ==
  /\ bot.handlers[h].pc = "idle"
  /\ bot.created + Cardinality(Running) < MaxTickets
  /\ bot' = IF customId # "ticket:create" THEN bot
            ELSE [bot EXCEPT !.handlers[h] =
                    [pc |-> "deferring", user |-> user, inGuild |-> inGuild,
                     channel |-> ""]]
  /\ UNCHANGED server

\* deferReply returns and the handler runs up to its next await: the guild
\* test, then createTicketChannel up to guild.channels.create.  A throw
\* before the reply was deferred is only logged.
Deferred(h, ok) ==
  /\ bot.handlers[h].pc = "deferring"
  /\ LET me == bot.handlers[h]
         old == ExistingTicket(bot.channels, me.user)
     IN bot' =
          IF ~ok THEN [bot EXCEPT !.handlers[h] = IdleHandler]
          ELSE IF ~me.inGuild
          THEN [bot EXCEPT !.handlers[h] = IdleHandler,
                           !.lastReply = [kind |-> "error:guild only", user |-> me.user.id,
                                          channel |-> ""]]
          ELSE IF ~HasCategory(bot.channels)
          THEN [bot EXCEPT !.handlers[h] = IdleHandler,
                           !.lastReply = [kind |-> "error:no category", user |-> me.user.id,
                                          channel |-> ""]]
          ELSE IF old # ""
          THEN [bot EXCEPT !.handlers[h] = [me EXCEPT !.pc = "sending", !.channel = old]]
          ELSE [bot EXCEPT !.handlers[h] = [me EXCEPT !.pc = "creating"]]
  /\ UNCHANGED server

\* guild.channels.create returns: the channel exists and is in the cache, or
\* the call throws
Created(h, ok) ==
  /\ bot.handlers[h].pc = "creating"
  /\ LET me == bot.handlers[h]
         id == TicketChannelIds[bot.created + 1]
     IN bot' =
          IF ok
          THEN [bot EXCEPT !.channels = Append(@, NewChannel(id, me.user)),
                           !.created = @ + 1,
                           !.handlers[h] = [me EXCEPT !.pc = "sending", !.channel = id]]
          ELSE [bot EXCEPT !.handlers[h] = IdleHandler,
                           !.lastReply = [kind |-> "error:create", user |-> me.user.id,
                                          channel |-> ""]]
  /\ UNCHANGED server

\* channel.send of the welcome message returns, and the handler replies
GreetingSent(h, ok) ==
  /\ bot.handlers[h].pc = "sending"
  /\ LET me == bot.handlers[h]
     IN bot' = [bot EXCEPT !.handlers[h] = IdleHandler,
                           !.lastReply =
                             IF ok THEN [kind |-> "ticket", user |-> me.user.id,
                                         channel |-> me.channel]
                             ELSE [kind |-> "error:send", user |-> me.user.id,
                                   channel |-> ""]]
  /\ UNCHANGED server

\* the bot in a guild whose cache holds the ticket category, or does not
InitBot ==
  /\ variant = "pkceSingle"
  /\ store = EmptySession
  /\ reqs = [r \in Slots |-> IdleReq]
  /\ lastResp = NoResp
  /\ lastStart = NoStart
  /\ prevState = NoTok
  /\ sent = 0
  /\ won = FALSE
  /\ env = FullEnv
  /\ lastCall = NoCall
  /\ files = AllFiles
  /\ bot \in {NoBot, [NoBot EXCEPT !.channels = <<CategoryChannel>>]}

\* the handlers of interactions run interleaved at their awaits
NextBot ==
  \E h \in 1 .. MaxInFlight :
    \/ \E u \in BotUsers, c \in {"ticket:create", "other"}, g \in BOOLEAN :
         InteractionArrive(h, u, c, g)
    \/ \E ok \in BOOLEAN : Deferred(h, ok)
    \/ \E ok \in BOOLEAN : Created(h, ok)
    \/ \E ok \in BOOLEAN : GreetingSent(h, ok)

SpecBot == InitBot /\ [][NextBot]_vars

\* ---- the admin gate and the ticket bridge under every configuration ---------
\* the session of a browser that has not logged in, or has completed one login
LoggedIn(v, user) ==
  CallbackLogin(v, CallbackTake(v, StartSession(v, EmptySession, 1, IF IsPkce(v) THEN 1 ELSE NoTok)),
                user)

InitBridge ==
  /\ variant \in {v \in Variants : HasAdmin(v)}
  /\ store \in {EmptySession} \cup {LoggedIn(variant, u) : u \in Profiles}
  /\ reqs = [r \in Slots |-> IdleReq]
  /\ lastResp = NoResp
  /\ lastStart = IF store = EmptySession THEN NoStart
                 ELSE [state |-> 1, codeVerifier |-> IF IsPkce(variant) THEN 1 ELSE NoTok]
  /\ prevState = NoTok
  /\ sent = 0
  /\ won = FALSE
  /\ env \in Envs
  /\ lastCall = NoCall
  /\ files = AllFiles
  /\ bot = NoBot

StepBridge(r) ==
  \/ \E p1 \in PassInputs, p2 \in PassInputs : AdminLogin(r, p1, p2)
  \/ AdminLogout(r)
  \/ AdminMe(r)
  \/ Logout(r)
  \/ \E g \in GuildIds : TicketsList(r, g)
  \/ \E ch \in ChannelIds : TicketRead(r, ch)
  \/ \E ch \in ChannelIds, c \in Contents : TicketSend(r, ch, c)
  \/ \E o \in Outcomes, p \in {NoPayload, NullPayload, EmptyList} : BotResponse(r, o, p)

NextBridge == StepBridge(1)

SpecBridge == InitBridge /\ [][NextBridge]_vars

\* ---- the ticket bridge over the answers of Discord ----------------------------
\* an admin session with the bot fully configured
InitData ==
  /\ variant \in {v \in Variants : HasAdmin(v)}
  /\ store = [EmptySession EXCEPT !.admin = AdminFlag(variant)]
  /\ reqs = [r \in Slots |-> IdleReq]
  /\ lastResp = NoResp
  /\ lastStart = NoStart
  /\ prevState = NoTok
  /\ sent = 0
  /\ won = FALSE
  /\ env = FullEnv
  /\ lastCall = NoCall
  /\ files = AllFiles
  /\ bot = NoBot

NextData ==
  \/ \E g \in GuildIds : TicketsList(1, g)
  \/ \E ch \in ChannelIds : TicketRead(1, ch)
  \/ \E ch \in ChannelIds, c \in Contents : TicketSend(1, ch, c)
  \/ \E o \in Outcomes, p \in {NoPayload} \cup ChannelPayloads \cup MessagePayloads :
        BotResponse(1, o, p)
  \/ AdminLogout(1)

SpecData == InitData /\ [][NextData]_vars

\* ---- the OAuth flow, the admin gate and the pages, over every directory ----
InitPages ==
  /\ variant \in Variants
  /\ store = EmptySession
  /\ reqs = [r \in Slots |-> IdleReq]
  /\ lastResp = NoResp
  /\ lastStart = NoStart
  /\ prevState = NoTok
  /\ sent = 0
  /\ won = FALSE
  /\ env = FullEnv
  /\ lastCall = NoCall
  /\ files \in Dirs
  /\ bot = NoBot

NextPages ==
  \/ Step(1)
  \/ GetPanel(1)
  \/ GetAdminPage(1)

SpecPages == InitPages /\ [][NextPages]_vars

\* ==== properties ==============================================================
TicketOps == {"list", "read", "send"}

\* a callback is waiting for the token or the identity endpoint
InCallback(r) == reqs[r].op = "callback" /\ reqs[r].pc \in {"token", "profile"}

\* the state check a callback must pass: a handshake is pending and the
\* request's state is the pending one
StateMatches(s, state) == HasPending(variant, s) /\ state = PendingState(variant, s)

\* the credentials the configuration accepts
CorrectCredentials(pass1, pass2) ==
  IF variant = "pkceSingle" THEN pass1 \in {ADMIN_PASS_1, ADMIN_PASS_2}
  ELSE pass1 = ADMIN_PASS_1 /\ pass2 = ADMIN_PASS_2

\* C1: a token exchange is attempted only for a callback whose state equals the
\* state of the handshake pending in its session; a callback whose state
\* differs from it, or that finds no handshake pending, is answered 400 whatever
\* its code is, and leaves the session (the user identity with it) as it was.
C1_ExchangeOnlyOnStateMatch ==
  /\ [](\A r \in Slots : InCallback(r) =>
          /\ reqs[r].state # NoTok
          /\ StateMatches(reqs[r].sess0, reqs[r].state))
  /\ [][\A c \in QueryCodes, s \in QueryStates :
          (CallbackArrive(1, c, s) /\ ~StateMatches(store, s)) =>
            /\ lastResp'.op = "callback" /\ lastResp'.status = 400
            /\ reqs' = reqs
            /\ store' = store]_vars

\* a callback with a code was turned down while a handshake with another state
\* was pending
C1_Witness ==
  /\ lastResp.op = "callback" /\ lastResp.status = 400
  /\ lastResp.body \in {"Invalid state", "Invalid state."}
  /\ HasPending(variant, store)
  /\ lastResp.state \notin {NoTok, PendingState(variant, store)}

\* C2: once a callback has logged the user in, no handshake is pending, and
\* until the next Start every further callback (the same code and state
\* included) is answered 400 without a token exchange.
C2_ReplayRejected ==
  won =>
    /\ ~HasPending(variant, store)
    /\ \A r \in Slots : ~InCallback(r)
    /\ lastResp.op = "callback" => lastResp.status \in {302, 400}

\* the state of the handshake that logged the user in was presented again and
\* turned down
C2_Witness ==
  /\ won
  /\ lastResp.op = "callback" /\ lastResp.status = 400
  /\ lastResp.state = lastStart.state

\* C3: a callback that passed the state check has cleared the handshake by the
\* time the token exchange is out; after it ended in an upstream failure (500)
\* no handshake is pending, and a handshake reaches the token endpoint at most
\* once per Start.
C3_NoRetryWithoutStart ==
  /\ \A r \in Slots : InCallback(r) => ~HasPending(variant, reqs[r].sess)
  /\ (lastResp.op = "callback" /\ lastResp.status = 500) => ~HasPending(variant, store)
  /\ sent <= 1

\* C4: Start leaves the handshake it generated as the one pending handshake of
\* the session, whatever was pending before; from then on only a callback
\* carrying the state of the latest Start passes the state check, and one
\* carrying the state of an earlier Start is answered 400.
C4_StartOverwrites ==
  /\ lastResp.op = "start" =>
       /\ HasPending(variant, store)
       /\ PendingState(variant, store) = lastStart.state
       /\ lastResp.state = lastStart.state
  /\ \A r \in Slots : InCallback(r) => reqs[r].state = lastStart.state
  /\ (lastResp.op = "callback" /\ lastResp.state # lastStart.state) => lastResp.status = 400

\* after two Starts with distinct states a callback carrying the first state
\* was turned down while the second handshake was pending
C4_Witness ==
  /\ prevState \notin {NoTok, lastStart.state}
  /\ lastResp.op = "callback" /\ lastResp.status = 400
  /\ lastResp.state = prevState
  /\ HasPending(variant, store) /\ PendingState(variant, store) = lastStart.state

\* C5: in the PKCE variants the verifier sent to the token endpoint is the one
\* the latest Start generated together with the state the callback carries,
\* and the handshake of one Start reaches the token endpoint at most once.
C5_VerifierOfAcceptedStart ==
  IsPkce(variant) =>
    /\ \A r \in Slots : reqs[r].pc = "token" =>
         /\ reqs[r].codeVerifier # NoTok
         /\ reqs[r].codeVerifier = lastStart.codeVerifier
         /\ reqs[r].state = lastStart.state
    /\ sent <= 1

\* a token exchange is out for the second of two handshakes of the session
C5_Witness ==
  /\ IsPkce(variant)
  /\ reqs[1].pc = "token"
  /\ prevState \notin {NoTok, lastStart.state}
  /\ reqs[1].codeVerifier # reqs[1].state

\* C6: the identity is written only by the step in which the identity endpoint
\* answers with success, after the token endpoint did; a non-success answer or
\* a throw of either endpoint ends the callback with 500 and the user identity
\* as it was before the callback.
C6_IdentityOnlyAfterBothSucceed ==
  /\ [](\A r \in Slots : InCallback(r) =>
          /\ reqs[r].sess.user = reqs[r].sess0.user
          /\ store.user = reqs[r].sess0.user)
  /\ [][\A o \in {"fail", "throw"} :
          (TokenResponse(1, o) \/ \E u \in Profiles : ProfileResponse(1, o, u)) =>
            /\ lastResp'.op = "callback" /\ lastResp'.status = 500
            /\ store'.user = reqs[1].sess0.user
            /\ store'.user = store.user]_vars
  /\ [][(store'.user # store.user /\ Truthy(store'.user)) =>
          /\ reqs[1].pc = "profile"
          /\ lastResp'.op = "callback" /\ lastResp'.status = 302]_vars

\* a callback ended 500 on a session without identity, which still has none
C6_Witness ==
  /\ lastResp.op = "callback" /\ lastResp.status = 500
  /\ ~Truthy(store.user)
  /\ sent >= 1

\* C7: a ticket route has a request to Discord out only if the admin flag was
\* set in the session it loaded, and it answers 401 when the flag is absent.
C7_GuardFailsClosed ==
  /\ \A r \in Slots : reqs[r].pc = "upstream" =>
       /\ reqs[r].op \in TicketOps
       /\ reqs[r].sess0.admin \in {TrueV, [t |-> "obj", ok |-> TRUE]}
  /\ lastResp.op \in TicketOps =>
       (lastResp.status = 401 <=> store.admin \in {UndefV, NullV})

\* a ticket route answered 401 after admin logout, on a session that earlier
\* had a request to Discord answered
C7_Witness ==
  /\ lastResp.op = "send" /\ lastResp.status = 401
  /\ store.admin = NullV
  /\ lastCall.kind = "post"

C9_Incorrect401 ==
  [][\A p1 \in PassInputs, p2 \in PassInputs :
       (AdminLogin(1, p1, p2) /\ ~CorrectCredentials(p1, p2)) =>
         /\ lastResp'.status = 401
         /\ store'.admin = store.admin]_vars

\* a credential field that is absent or not a string
Malformed(pass1, pass2) ==
  IF variant = "pkceSingle" THEN pass1 = Undef ELSE pass1 = Undef \/ pass2 = Undef

\* C9 amended: a login with an incorrect credential leaves the whole session as
\* it was and is answered 401, except that the PKCE variants answer 400 when a
\* credential field is absent or not a string; /api/admin/me on a session
\* without the flag answers 401.
C9_IncorrectRejected ==
  /\ [][\A p1 \in PassInputs, p2 \in PassInputs :
          (AdminLogin(1, p1, p2) /\ ~CorrectCredentials(p1, p2)) =>
            /\ lastResp'.status = IF IsPkce(variant) /\ Malformed(p1, p2) THEN 400 ELSE 401
            /\ store' = store]_vars
  /\ []((lastResp.op = "adminMe" /\ ~Truthy(store.admin)) => lastResp.status = 401)

\* a login was answered 401 on a session that is not admin
C9_Witness ==
  /\ lastResp.op = "adminLogin" /\ lastResp.status = 401
  /\ ~Truthy(store.admin)

\* the steps of the OAuth flow
UserStep ==
  \/ \E s \in StateTokens, v \in Verifiers \cup {NoTok} : Start(1, s, v)
  \/ \E c \in QueryCodes, s \in QueryStates : CallbackArrive(1, c, s)
  \/ \E o \in Outcomes : TokenResponse(1, o)
  \/ \E o \in Outcomes, u \in Profiles : ProfileResponse(1, o, u)

\* the steps of the admin gate
AdminStep ==
  \/ \E p1 \in PassInputs, p2 \in PassInputs : AdminLogin(1, p1, p2)
  \/ AdminLogout(1)

\* C10 as stated: admin login and logout leave the user identity as it was;
\* Start, callback and user logout leave the admin flag as it was.
C10_Independent ==
  /\ [][AdminStep => store'.user = store.user]_vars
  /\ [][(UserStep \/ Logout(1)) => store'.admin = store.admin]_vars

\* C10 amended: as stated for admin login, admin logout, Start and callback;
\* user logout leaves the admin flag as it was in the non-PKCE two-password
\* variant and destroys the whole session, the flag included, in the others.
C10_IndependentButDestroy ==
  /\ [][AdminStep => store'.user = store.user]_vars
  /\ [][UserStep => store'.admin = store.admin]_vars
  /\ [][Logout(1) =>
          IF variant = "twoPass"
          THEN store'.admin = store.admin /\ ~Truthy(store'.user)
          ELSE store' = EmptySession]_vars

\* user logout on a session holding both left the admin flag alone
C10_Witness ==
  /\ variant = "twoPass"
  /\ lastResp.op = "logout"
  /\ Truthy(store.admin) /\ ~Truthy(store.user)
  /\ won

\* C11: GET /panel.html on a session without a user identity is answered with
\* a redirect to /auth/discord and never with the panel page.
C11_PanelGated ==
  (lastResp.op = "panel" /\ ~Truthy(store.user)) =>
    /\ lastResp.status = 302
    /\ lastResp.body = "/auth/discord"

\* C12: GET /admin.html on a session whose admin flag is absent does not
\* return the admin page, in any variant that has an admin gate.
C12_AdminPageGated ==
  (HasAdmin(variant) /\ lastResp.op = "adminPage" /\ ~Truthy(store.admin)) =>
    ~(lastResp.status = 200 /\ lastResp.body = "admin.html")

\* a content that is the empty string or only blanks
BlankContent(c) == c.t = "str" /\ c.len = 0

\* C13: on an admin session a ticket Send whose content is empty or only
\* whitespace is answered 400 in the step it arrives, and no request to
\* Discord is sent for it.
C13_BlankContentRejected ==
  [][\A ch \in ChannelIds, c \in {x \in Contents : BlankContent(x)} :
       (requireAdmin(store) /\ TicketSend(1, ch, c)) =>
         /\ lastResp'.op = "send" /\ lastResp'.status = 400
         /\ reqs' = reqs
         /\ lastCall' = lastCall]_vars

\* a Send on an admin session with the bot configured was turned down for its
\* content
C13_Witness ==
  /\ lastResp.op = "send" /\ lastResp.status = 400
  /\ lastResp.body \in {"error:missing_content", "error:Missing content"}
  /\ requireAdmin(store)
  /\ env.botToken
  /\ reqs[1].pc = "idle"

\* C14: the content a ticket Send posts to Discord is the trimmed content cut
\* to its first 1900 units: never longer than 1900, and unchanged when its
\* trimmed length is at most 1900.
C14_PostedAtMost1900 ==
  /\ [](lastCall.kind = "post" => lastCall.len <= MaxContent)
  /\ [][\A ch \in ChannelIds, c \in {x \in Contents : x.t = "str" /\ x.len > 0} :
          (TicketSend(1, ch, c) /\ reqs'[1].pc = "upstream") =>
            /\ lastCall'.kind = "post"
            /\ lastCall'.len = IF c.len > MaxContent THEN MaxContent ELSE c.len]_vars

\* the positions of the channels of an upstream array that lie in the
\* configured category and are text channels
TicketPositions(up) ==
  {i \in 1 .. Len(up) : up[i].parent_id = TICKETS_CATEGORY_ID /\ up[i].type = 0}

\* C15: the tickets of a List answer are the {id, name} pairs of exactly the
\* upstream channels whose parent is the configured category and whose type
\* is 0, one pair per channel, in upstream order.
C15_ListFiltersInOrder ==
  (lastResp.op = "list" /\ lastResp.status = 200) =>
    LET up == IF lastResp.up.t = "list" THEN lastResp.up.items ELSE <<>>
        Q == TicketPositions(up)
    IN /\ Len(lastResp.data) = Cardinality(Q)
       /\ \A j \in Q :
            lastResp.data[Cardinality({i \in Q : i < j}) + 1] =
              [id |-> up[j].id, name |-> up[j].name]

\* a List answer built from three channels: two tickets, not in id order, and
\* between them a channel that is not a ticket
C15_Witness ==
  /\ lastResp.op = "list" /\ lastResp.status = 200
  /\ lastResp.up.t = "list" /\ Len(lastResp.up.items) = 3
  /\ TicketPositions(lastResp.up.items) = {1, 3}
  /\ Len(lastResp.data) = 2
  /\ lastResp.data[1].id = "c2" /\ lastResp.data[2].id = "c1"

\* C16: on an admin session Ticket List is answered 400 when the ticket
\* category is not configured, and with a 5xx status when Discord answers the
\* channel fetch with a non-success status.
C16_ListFailures ==
  /\ [][\A g \in GuildIds :
          (requireAdmin(store) /\ ~env.category /\ TicketsList(1, g)) =>
            lastResp'.op = "list" /\ lastResp'.status = 400]_vars
  /\ [][(reqs[1].op = "list" /\ BotResponse(1, "fail", NoPayload)) =>
          lastResp'.op = "list" /\ lastResp'.status \in 500 .. 599]_vars

\* C17: Ticket Read asks Discord for at most 50 messages and answers with one
\* entry per upstream message, in the reverse of the upstream order; an
\* entry's authorType is "bot" exactly when the upstream author is marked as a
\* bot, and "user" otherwise.
C17_ReadReversed ==
  /\ lastCall.kind = "messages" => lastCall.limit <= 50
  /\ (lastResp.op = "read" /\ lastResp.status = 200) =>
       LET up == IF lastResp.up.t = "list" THEN lastResp.up.items ELSE <<>>
           n == Len(up)
       IN /\ Len(lastResp.data) = n
          /\ \A i \in 1 .. n :
               /\ lastResp.data[i].id = up[n + 1 - i].id
               /\ lastResp.data[i].authorType \in {"bot", "user"}
               /\ lastResp.data[i].authorType = "bot" <=>
                    (up[n + 1 - i].author.t = "obj" /\ up[n + 1 - i].author.bot)

\* a Read answer built from three messages, newest first: one by a bot, one
\* by a user, one without author
C17_Witness ==
  /\ lastResp.op = "read" /\ lastResp.status = 200
  /\ lastCall.kind = "messages" /\ lastCall.limit = 50
  /\ lastResp.up.t = "list" /\ Len(lastResp.up.items) = 3
  /\ lastResp.up.items[1].id = "m1" /\ lastResp.up.items[3].id = "m4"
  /\ lastResp.data[1].id = "m4" /\ lastResp.data[1].authorType = "user"
  /\ lastResp.data[3].id = "m1" /\ lastResp.data[3].authorType = "bot"

\* the avatar URL of the identity a session holds
StoredAvatarUrl(s) == IF IsPkce(variant) THEN s.user.avatar_url ELSE s.user.avatarUrl

\* discordAvatarUrl of the running variant
AvatarUrlOf(u) ==
  IF IsPkce(variant) THEN discordAvatarUrlPkce(u) ELSE discordAvatarUrlPlain(u)

\* the CDN URL of an avatar: gif for a reference that starts with a_, else png
CdnUrl(u) ==
  [kind |-> "avatars", id |-> u.id, avatar |-> u.avatar,
   ext |-> IF Len(u.avatar) >= 2 /\ u.avatar[1] = "a" /\ u.avatar[2] = "_"
           THEN "gif" ELSE "png"]

C19_LogoutClearsIdentity ==
  /\ [][Logout(1) => ~Truthy(store'.user)]_vars
  /\ [][(~Truthy(store.user) /\ Truthy(store'.user)) =>
          lastResp'.op = "callback" /\ lastResp'.status = 302]_vars
  /\ [](lastResp.op = "me" =>
          /\ lastResp.status = 200 <=> Truthy(store.user)
          /\ lastResp.status # 200 => lastResp.status = 401)
  /\ [][(lastResp.op = "logout" /\ GetPanel(1)) =>
          ~(lastResp'.status = 200 /\ lastResp'.body = "panel.html")]_vars

\* C20 as stated: once a session holds an identity, nothing but logout changes
\* it, a further Start and successful callback included.
C20_IdentityImmutable ==
  [][(Truthy(store.user) /\ store'.user # store.user) =>
       lastResp'.op = "logout"]_vars

\* C20 amended: the identity of a session changes only when logout removes it
\* or when a callback completes successfully, which stores the identity of the
\* profile just fetched in place of the one held; no other operation changes
\* any field of it.
C20_IdentityChangesOnlyByLogin ==
  [][store'.user # store.user =>
       \/ lastResp'.op = "logout" /\ ~Truthy(store'.user)
       \/ /\ reqs[1].pc = "profile"
          /\ lastResp'.op = "callback" /\ lastResp'.status = 302
          /\ \E u \in Profiles : store'.user = Identity(variant, u)]_vars

\* the callback of a second handshake has its profile request out on a
\* session that already holds an identity
C20_Witness ==
  /\ Truthy(store.user)
  /\ reqs[1].pc = "profile"
  /\ prevState # NoTok
  /\ lastStart.state = reqs[1].state

\* the ids an overwrite of the channel allows to view it
Viewers(ch) == {o.id : o \in {x \in ch.overwrites : "ViewChannel" \in x.allow}}

\* the channel is a text channel under the ticket category, hidden from
\* @everyone and visible to the user and the bot only, its topic naming the user
PrivateTicketOf(ch, user) ==
  /\ ch.type = 0
  /\ ch.parentId = TICKETS_CATEGORY_ID
  /\ ch.topic = <<"ticket:", user.id>>
  /\ \E o \in ch.overwrites : o.id = EveryoneId /\ "ViewChannel" \in o.deny
  /\ Viewers(ch) = {user.id, BotId}

\* C21: every channel the bot creates is a text channel under the configured
\* ticket category with ViewChannel denied to @everyone and allowed only to
\* the requesting user and the bot, and with topic ticket:<userId> of the
\* requesting user.
C21_TicketChannelPrivate ==
  /\ [](\A i \in 1 .. Len(bot.channels) :
          bot.channels[i].id # TICKETS_CATEGORY_ID =>
            \E u \in BotUsers : PrivateTicketOf(bot.channels[i], u))
  /\ [][\A h \in 1 .. MaxInFlight :
          (bot.handlers[h].pc = "creating" /\ Created(h, TRUE)) =>
            /\ Len(bot'.channels) = Len(bot.channels) + 1
            /\ PrivateTicketOf(bot'.channels[Len(bot'.channels)], bot.handlers[h].user)]_vars

\* the bot has created a ticket channel for each of two users
C21_Witness ==
  /\ Len(bot.channels) = 3
  /\ bot.channels[2].topic = <<"ticket:", "u2">>
  /\ bot.channels[3].topic = <<"ticket:", "u1">>
  /\ bot.lastReply.kind = "ticket" /\ bot.lastReply.channel = bot.channels[3].id

\* the positions of the text channels under the ticket category whose topic
\* is ticket:<id of the user>
TicketsOfUser(user) ==
  {i \in 1 .. Len(bot.channels) :
     /\ bot.channels[i].type = 0
     /\ bot.channels[i].parentId = TICKETS_CATEGORY_ID
     /\ bot.channels[i].topic = <<"ticket:", user.id>>}

\* C23: whatever ticket:create interactions a user sends, overlapping ones
\* included, at most one text channel with topic ticket:<userId> exists under
\* the ticket category, and the reply to a user who has one names that channel.
C23_OneTicketPerUser ==
  /\ \A u \in BotUsers : Cardinality(TicketsOfUser(u)) <= 1
  /\ \A u \in BotUsers :
       (bot.lastReply.kind = "ticket" /\ bot.lastReply.user = u.id) =>
         \A i \in TicketsOfUser(u) : bot.channels[i].id = bot.lastReply.channel

\* C24: a callback answered 400 (no code, no state, no handshake pending, or a
\* state other than the pending one) leaves the session as it was: the pending
\* handshake, the user identity and the admin flag are those it found, no
\* token exchange is out for it, and while a handshake is still pending after
\* the 400 a callback carrying its state with any code passes the checks.
C24_RejectedCallbackKeepsSession ==
  /\ []((lastResp.op = "callback" /\ lastResp.status = 400 /\ HasPending(variant, store)) =>
          \A c \in Codes :
            CallbackReject(variant, store, c, PendingState(variant, store)) = "")
  /\ [][\A c \in QueryCodes, s \in QueryStates :
          (CallbackReject(variant, store, c, s) # "" /\ CallbackArrive(1, c, s)) =>
            /\ lastResp'.op = "callback" /\ lastResp'.status = 400
            /\ store' = store
            /\ HasPending(variant, store') = HasPending(variant, store)
            /\ store'.user = store.user /\ store'.admin = store.admin
            /\ reqs' = reqs]_vars

\* a callback without a code was answered 400 on a session that held a pending
\* handshake, a user and the admin flag, and the callback that came next, with
\* the pending state, is waiting for the token endpoint: no Start in between
C24_Witness ==
  /\ lastResp.op = "callback" /\ lastResp.status = 400
  /\ lastResp.body \in {"Missing code", "Missing code/state."}
  /\ InCallback(1) /\ reqs[1].state = lastStart.state
  /\ Truthy(reqs[1].sess0.user) /\ Truthy(reqs[1].sess0.admin)

\* C22: the pending handshake is consumed once even when callbacks overlap: of
\* the callbacks in flight at the same time for one session, at most one has
\* passed the state check with the state of the latest Start and sent a token
\* exchange for it.  Stated for the PKCE variants, whose handler erases the
\* handshake from req.session before it sends the exchange.
C22_ConsumedOnceConcurrently ==
  IsPkce(variant) =>
    \A r1, r2 \in Slots :
      (r1 # r2 /\ InCallback(r1) /\ InCallback(r2) /\ reqs[r1].state = reqs[r2].state) =>
        sent <= 1

====
